---- MODULE Spec2Model ----
(***************************************************************************)
(* A model of pipen-filters: the filter registry (FILTERS) and add_filter, *)
(* the plugin's on_init hook, the extension-splitting filters built on     *)
(* _splitexit, the stat filters wrapped by _neg1_if_error, isempty and     *)
(* config.                                                                 *)
(*                                                                         *)
(* A Python str is modelled as a sequence of one-character strings, so     *)
(* that splitting, stripping and concatenation are computed, not assumed.  *)
(***************************************************************************)
EXTENDS Integers, Sequences, FiniteSets, TLC

VARIABLES
    FILTERS,    \* filters.FILTERS: name -> function (a function is named by its __name__)
    config,     \* pipen.config of the host, as far as on_init touches it
    hooked,     \* the host has fired on_init
    pth,        \* the arguments of the filter the template applies
    ignore,
    recursive,
    fs,         \* what stat() of each path gives
    args,       \* the other arguments of the call, by parameter name
    frame,      \* the locals of a _splitexit call in progress
    ret         \* the outcome of the filter call; op "none" before the call

vars == <<FILTERS, config, hooked, pth, ignore, recursive, fs, args, frame, ret>>

(***************************************************************************)
(* Bounds of the model                                                     *)
(***************************************************************************)
MaxPathLen == 5
MaxIgnore == 2
MaxStat == 1
MaxAliases == 2
MaxDecorated == 2
MaxText == 2

PathChars == {"/", ".", "a", "g"}

RECURSIVE SeqsUpTo(_, _)
SeqsUpTo(S, n) ==
    IF n = 0 THEN {<<>>}
    ELSE LET shorter == SeqsUpTo(S, n - 1)
         IN  shorter \cup {Append(s, c) : s \in {t \in shorter : Len(t) = n - 1}, c \in S}

Paths == SeqsUpTo(PathChars, MaxPathLen)

\* ignore entries as a caller may write them: "", "g", "..a"
IgnoreEntries == {<<>>, <<"g">>, <<".", ".", "a">>}

\* the `ignore` argument: a single str, or a list of str
Ignores ==
    {[kind |-> "str", val |-> e] : e \in IgnoreEntries}
    \cup {[kind |-> "list", val |-> l] : l \in SeqsUpTo(IgnoreEntries, MaxIgnore)}

(***************************************************************************)
(* str helpers                                                             *)
(***************************************************************************)
\* str.rfind(c), as a 1-based index; 0 when c does not occur (Python's -1)
RECURSIVE RFindFrom(_, _, _)
RFindFrom(s, c, i) ==
    IF i = 0 THEN 0
    ELSE IF s[i] = c THEN i
    ELSE RFindFrom(s, c, i - 1)

RFind(s, c) == RFindFrom(s, c, Len(s))

\* str.find(c), as a 1-based index; 0 when c does not occur
RECURSIVE FindFrom(_, _, _)
FindFrom(s, c, i) ==
    IF i > Len(s) THEN 0
    ELSE IF s[i] = c THEN i
    ELSE FindFrom(s, c, i + 1)

Find(s, c) == FindFrom(s, c, 1)

\* s.lstrip(".")
RECURSIVE LStripDot(_)
LStripDot(s) ==
    IF s # <<>> /\ Head(s) = "." THEN LStripDot(Tail(s)) ELSE s

\* s[1:]
DropFirst(s) == IF s = <<>> THEN <<>> ELSE Tail(s)

\* s.split(".")[0]
SplitDotFirst(s) ==
    LET i == Find(s, ".")
    IN  IF i = 0 THEN s ELSE SubSeq(s, 1, i - 1)

\* x in lst
InList(x, lst) == \E i \in 1..Len(lst) : lst[i] = x

(***************************************************************************)
(* os.path.splitext (posixpath): the rightmost dot of the final segment    *)
(* that has a non-dot character of the segment before it                   *)
(***************************************************************************)
RECURSIVE SplitextScan(_, _, _)
SplitextScan(p, filenameIndex, dotIndex) ==
    IF filenameIndex < dotIndex
    THEN IF p[filenameIndex] # "."
         THEN <<SubSeq(p, 1, dotIndex - 1), SubSeq(p, dotIndex, Len(p))>>
         ELSE SplitextScan(p, filenameIndex + 1, dotIndex)
    ELSE <<p, <<>>>>

\* the same with the extension cut after its dot (the dot lost)
SplitextDotLost(p) ==
    LET sepIndex == RFind(p, "/")
        dotIndex == RFind(p, ".")
        r == SplitextScan(p, sepIndex + 1, dotIndex)
    IN  IF dotIndex > sepIndex THEN <<r[1], DropFirst(r[2])>> ELSE <<p, <<>>>>

\* the same splitting at the rightmost dot of the whole path, separators not looked at
SplitextAnyDot(p) == SplitextScan(p, 1, RFind(p, "."))

Splitext(p) ==
    LET sepIndex == RFind(p, "/")
        dotIndex == RFind(p, ".")
    IN  IF dotIndex > sepIndex
        THEN SplitextScan(p, sepIndex + 1, dotIndex)
        ELSE <<p, <<>>>>

(***************************************************************************)
(* _splitexit                                                              *)
(***************************************************************************)
\* if isinstance(ignore, str): ignore = [ignore]
AsList(ig) == IF ig.kind = "str" THEN <<ig.val>> ELSE ig.val

\* the same with the dot prepended to the entry as written (no lstrip)
NormalizePrependOnly(ig) ==
    LET lst == AsList(ig)
    IN  [i \in 1..Len(lst) |-> <<".">> \o lst[i]]

\* the same with the entries compared as written (nothing stripped, nothing prepended)
NormalizeAsWritten(ig) == AsList(ig)

\* ignore = ["." + ext.lstrip(".") for ext in ignore]
Normalize(ig) ==
    LET lst == AsList(ig)
    IN  [i \in 1..Len(lst) |-> <<".">> \o LStripDot(lst[i])]

\* while last in ignore: pth, last = path.splitext(pth)
RECURSIVE StripWhile(_, _)
StripWhile(pl, ign) ==
    IF InList(pl[2], ign) THEN StripWhile(Splitext(pl[1]), ign) ELSE pl

\* _splitexit with the recursive flag ignored (always one further split)
SplitexitNeverRecursive(p, ig, rec) ==
    LET ign == Normalize(ig)
        pl == Splitext(p)
    IN  IF ~InList(pl[2], ign) THEN pl ELSE Splitext(pl[1])

\* _splitexit with the recursive flag ignored (always the loop)
SplitexitAlwaysRecursive(p, ig, rec) ==
    StripWhile(Splitext(p), Normalize(ig))

Splitexit(p, ig, rec) ==
    LET ign == Normalize(ig)
        pl == Splitext(p)
    IN  IF ~rec
        THEN IF ~InList(pl[2], ign) THEN pl ELSE Splitext(pl[1])
        ELSE StripWhile(pl, ign)

(***************************************************************************)
(* The path handle PanPath(pth) of a local path: pathlib's pure POSIX path *)
(***************************************************************************)
\* s.split("/"), as a sequence of segments
RECURSIVE SplitSlash(_)
SplitSlash(s) ==
    LET i == Find(s, "/")
    IN  IF i = 0 THEN <<s>>
        ELSE <<SubSeq(s, 1, i - 1)>> \o SplitSlash(SubSeq(s, i + 1, Len(s)))

\* the segments that count: empty ones and "." are dropped
RECURSIVE KeptParts(_)
KeptParts(segs) ==
    IF segs = <<>> THEN <<>>
    ELSE IF Head(segs) = <<>> \/ Head(segs) = <<".">> THEN KeptParts(Tail(segs))
    ELSE <<Head(segs)>> \o KeptParts(Tail(segs))

\* the root: "//" for exactly two leading slashes, "/" for one or for three and more
RootOf(s) ==
    IF s = <<>> \/ Head(s) # "/" THEN <<>>
    ELSE IF Len(s) >= 2 /\ s[2] = "/" /\ ~(Len(s) >= 3 /\ s[3] = "/") THEN <<"/", "/">>
    ELSE <<"/">>

PanPath(s) == [root |-> RootOf(s), parts |-> KeptParts(SplitSlash(s))]

RECURSIVE JoinSlash(_)
JoinSlash(parts) ==
    IF parts = <<>> THEN <<>>
    ELSE IF Len(parts) = 1 THEN Head(parts)
    ELSE Head(parts) \o <<"/">> \o JoinSlash(Tail(parts))

\* str(path)
PathStr(h) ==
    IF h.root = <<>> /\ h.parts = <<>> THEN <<".">>
    ELSE h.root \o JoinSlash(h.parts)

\* path.name
PathName(h) == IF h.parts = <<>> THEN <<>> ELSE h.parts[Len(h.parts)]

\* path.parent
PathParent(h) ==
    IF h.parts = <<>> THEN h
    ELSE [root |-> h.root, parts |-> SubSeq(h.parts, 1, Len(h.parts) - 1)]

\* path / other
PathJoin(h, other) ==
    LET o == PanPath(other)
    IN  IF o.root # <<>> THEN o
        ELSE [root |-> h.root, parts |-> h.parts \o o.parts]

(***************************************************************************)
(* The registry: add_filter and the catalog registered at import           *)
(***************************************************************************)
\* FILTERS[name] = func
Bind(reg, name, func) == (name :> func) @@ reg

RECURSIVE BindAll(_, _, _)
BindAll(reg, names, func) ==
    IF names = <<>> THEN reg
    ELSE BindAll(Bind(reg, Head(names), func), Tail(names), func)

\* the decorator argument: the function itself (bare @add_filter), None, a str or a list
\* of str.  A function is named by its __name__.
\* aliases = aliases or []; if isinstance(aliases, str): aliases = [aliases]
AliasList(arg) ==
    IF arg.kind = "callable" \/ arg.kind = "none" THEN <<>>
    ELSE IF arg.kind = "str" THEN (IF arg.val = "" THEN <<>> ELSE <<arg.val>>)
    ELSE arg.val

AddFilter(reg, arg, func) == BindAll(Bind(reg, func, func), AliasList(arg), func)

Bare == [kind |-> "callable"]
OneAlias(a) == [kind |-> "str", val |-> a]
ListAlias(l) == [kind |-> "list", val |-> l]

\* the decorated functions of filters.py, in source order: the path filters,
PathCatalog == <<
    <<Bare, "realpath">>, <<Bare, "readlink">>, <<Bare, "commonprefix">>,
    <<Bare, "dirname">>, <<Bare, "basename">>,
    <<OneAlias("suffix"), "ext">>, <<OneAlias("suffix0"), "ext0">>,
    <<Bare, "prefix">>, <<Bare, "prefix0">>,
    <<ListAlias(<<"fn", "stem">>), "filename">>,
    <<ListAlias(<<"fn0", "stem0">>), "filename0">>,
    <<OneAlias("joinpath"), "joinpaths">>, <<Bare, "as_path">> >>

\* the file-system queries,
FileCatalog == <<
    <<Bare, "isdir">>, <<Bare, "isfile">>, <<Bare, "islink">>, <<Bare, "exists">>,
    <<Bare, "getsize">>, <<Bare, "getmtime">>, <<Bare, "getctime">>,
    <<Bare, "getatime">>, <<Bare, "isempty">> >>

\* quoting, serialization, config, glob, reading and the string utilities
DataCatalog == <<
    <<Bare, "quote">>, <<Bare, "squote">>,
    <<OneAlias("json"), "json_dumps">>, <<Bare, "json_load">>, <<Bare, "json_loads">>,
    <<OneAlias("toml_dumps"), "toml">>, <<Bare, "toml_load">>, <<Bare, "toml_loads">>,
    <<Bare, "config">>, <<Bare, "glob">>, <<Bare, "glob0">>, <<Bare, "read">>,
    <<Bare, "readlines">>, <<Bare, "regex_replace">>, <<Bare, "slugify">> >>

\* FILTERS after the decorators of `decorated` have run on reg, first to last
RECURSIVE Register(_, _)
Register(reg, decorated) ==
    IF decorated = <<>> THEN reg
    ELSE Register(AddFilter(reg, Head(decorated)[1], Head(decorated)[2]), Tail(decorated))

\* FILTERS: Dict[str, Callable] = {}
EmptyRegistry == [n \in {} |-> n]

RegistryOfPaths == Register(EmptyRegistry, PathCatalog)
RegistryOfFiles == Register(RegistryOfPaths, FileCatalog)

\* FILTERS once filters.py is imported
Registry == Register(RegistryOfFiles, DataCatalog)

(***************************************************************************)
(* The filters built on _splitexit                                         *)
(***************************************************************************)
basename(p) == PathName(PanPath(p))

ext(p, ig, rec) == Splitexit(p, ig, rec)[2]

\* ext0 without the [1:]
ext0Whole(p, ig, rec) == ext(p, ig, rec)

ext0(p, ig, rec) == DropFirst(ext(p, ig, rec))

prefix(p, ig, rec) == Splitexit(p, ig, rec)[1]

filename(p, ig, rec) == basename(Splitexit(p, ig, rec)[1])

\* filename0 without the cut at the first dot
filename0Uncut(p, ig, rec) == filename(p, ig, rec)

filename0(p, ig, rec) == SplitDotFirst(filename(p, ig, rec))

\* calling the function object a registry entry holds
CallSplitFilter(func, p, ig, rec) ==
    CASE func = "ext" -> ext(p, ig, rec)
      [] func = "ext0" -> ext0(p, ig, rec)
      [] func = "prefix" -> prefix(p, ig, rec)
      [] func = "filename" -> filename(p, ig, rec)
      [] func = "filename0" -> filename0(p, ig, rec)

prefix0(reg, p, ig, rec) ==
    PathStr(PathJoin(PathParent(PanPath(p)), CallSplitFilter(reg["filename0"], p, ig, rec)))

(***************************************************************************)
(* The stat filters: PanPath(pth).stat() under _neg1_if_error              *)
(***************************************************************************)
\* the exception classes stat() raises here, each with its base class
ExcBase ==
    [FileNotFoundError |-> "OSError", PermissionError |-> "OSError",
     OSError |-> "Exception", ValueError |-> "Exception",
     Exception |-> "BaseException", BaseException |-> "object"]

StatErrors == {"FileNotFoundError", "PermissionError", "ValueError"}

\* isinstance(exc, cls)
RECURSIVE IsInstance(_, _)
IsInstance(exc, cls) ==
    IF exc = cls THEN TRUE
    ELSE IF exc = "object" THEN FALSE
    ELSE IsInstance(ExcBase[exc], cls)

StatValues == 0..MaxStat

StatResults ==
    [st_size : StatValues, st_mtime : StatValues, st_ctime : StatValues,
     st_atime : StatValues]

NoStat == [st_size |-> 0, st_mtime |-> 0, st_ctime |-> 0, st_atime |-> 0]

\* what PanPath(p).stat() does: raises exc, or returns st
FileStatus ==
    {[exc |-> e, st |-> NoStat] : e \in StatErrors}
    \cup {[exc |-> "none", st |-> r] : r \in StatResults}

StatPaths == {<<"f">>, <<"g">>}

\* the outcome of a call: the value returned, or the exception raised to the caller
Returned(v) == [val |-> v, raised |-> "none"]
Raised(e) == [val |-> <<>>, raised |-> e]

\* the wrapper catching FileNotFoundError alone
Neg1IfMissing(outcome) ==
    IF outcome.raised # "none" /\ IsInstance(outcome.raised, "FileNotFoundError")
    THEN Returned(-1)
    ELSE outcome

\* try: return func(...)  except Exception: return -1
Neg1IfError(outcome) ==
    IF outcome.raised # "none" /\ IsInstance(outcome.raised, "Exception")
    THEN Returned(-1)
    ELSE outcome

\* PanPath(pth).stat().<field>
StatField(files, p, field) ==
    IF files[p].exc # "none" THEN Raised(files[p].exc)
    ELSE Returned(files[p].st[field])

getsize(files, p) == Neg1IfError(StatField(files, p, "st_size"))

getmtime(files, p) == Neg1IfError(StatField(files, p, "st_mtime"))

getctime(files, p) == Neg1IfError(StatField(files, p, "st_ctime"))

getatime(files, p) == Neg1IfError(StatField(files, p, "st_atime"))

(***************************************************************************)
(* PipenFilters.on_init                                                    *)
(***************************************************************************)
NoConfig == [k \in {} |-> k]
EmptyDict == [k \in {} |-> k]

\* {**defaults, **user} with the two spreads in the other order
MergeDefaultsLast(defaults, user) == defaults @@ user

\* {**defaults, **user}: a key of both keeps the value of user
Merge(defaults, user) == user @@ defaults

\* if key not in d: d[key] = {}
EnsureDict(d, key) == IF key \in DOMAIN d THEN d ELSE (key :> EmptyDict) @@ d

\* on_init merging into the filters slot alone
ConfigAfterOnInitFiltersOnly(cfg, reg) ==
    LET c1 == EnsureDict(cfg, "template_opts")
        t1 == EnsureDict(c1["template_opts"], "filters")
        t2 == EnsureDict(t1, "globals")
        t3 == [t2 EXCEPT !["filters"] = Merge(reg, t2["filters"])]
    IN  [c1 EXCEPT !["template_opts"] = t3]

\* the host configuration on_init leaves
ConfigAfterOnInit(cfg, reg) ==
    LET c1 == EnsureDict(cfg, "template_opts")
        t1 == EnsureDict(c1["template_opts"], "filters")
        t2 == EnsureDict(t1, "globals")
        t3 == [t2 EXCEPT !["filters"] = Merge(reg, t2["filters"])]
        t4 == [t3 EXCEPT !["globals"] = Merge(reg, t3["globals"])]
    IN  [c1 EXCEPT !["template_opts"] = t4]

\* what the host has configured before the hook: names the user binds to own functions
UserNames == {"ext", "stem", "mine"}
UserFuncs == {"user_fn"}

Dicts(keys, values) == UNION {[ks -> values] : ks \in SUBSET keys}

UserDicts == Dicts(UserNames, UserFuncs)

HostConfigs ==
    {NoConfig} \cup {("template_opts" :> t) : t \in Dicts({"filters", "globals"}, UserDicts)}

(***************************************************************************)
(* State machine                                                           *)
(***************************************************************************)
NoRet == [op |-> "none", val |-> <<>>, raised |-> "none"]

Outcome(op, outcome) == [op |-> op, val |-> outcome.val, raised |-> outcome.raised]

NoFs == [p \in StatPaths |-> [exc |-> "FileNotFoundError", st |-> NoStat]]
NoIgnore == [kind |-> "list", val |-> <<>>]
NoArgs == [k \in {} |-> k]
NoFrame == [pc |-> "none", pth |-> <<>>, last |-> <<>>, ignore |-> <<>>, iterations |-> 0]

\* a template applying a path filter to any path and ignore-list
Init ==
    /\ FILTERS = Registry
    /\ config = NoConfig
    /\ hooked = FALSE
    /\ fs = NoFs
    /\ pth \in Paths
    /\ ignore \in Ignores
    /\ recursive \in BOOLEAN
    /\ args = NoArgs
    /\ frame = NoFrame
    /\ ret = NoRet

\* a host with any configuration, and a template applying a path filter
PluginPaths == {<<"/", "a", "/", "b", ".", "a", ".", "g">>}

InitPlugin ==
    /\ FILTERS = Registry
    /\ config \in HostConfigs
    /\ hooked = FALSE
    /\ fs = NoFs
    /\ pth \in PluginPaths
    /\ ignore \in {NoIgnore, [kind |-> "str", val |-> <<"g">>]}
    /\ recursive \in BOOLEAN
    /\ args = NoArgs
    /\ frame = NoFrame
    /\ ret = NoRet

\* a template applying a stat filter to a path of any status
InitStat ==
    /\ FILTERS = Registry
    /\ config = NoConfig
    /\ hooked = FALSE
    /\ fs \in [StatPaths -> FileStatus]
    /\ pth \in StatPaths
    /\ ignore = NoIgnore
    /\ recursive = FALSE
    /\ args = NoArgs
    /\ frame = NoFrame
    /\ ret = NoRet

\* on_init changing the registry in place (FILTERS.update(...)) before the merge
OnInitInPlace ==
    /\ FILTERS' =
         IF "template_opts" \in DOMAIN config /\ "filters" \in DOMAIN config["template_opts"]
         THEN Merge(FILTERS, config["template_opts"]["filters"])
         ELSE FILTERS
    /\ config' = ConfigAfterOnInit(config, FILTERS')
    /\ hooked' = TRUE
    /\ UNCHANGED <<pth, ignore, recursive, fs, args, frame, ret>>

OnInit ==
    /\ config' = ConfigAfterOnInit(config, FILTERS)
    /\ hooked' = TRUE
    /\ UNCHANGED <<FILTERS, pth, ignore, recursive, fs, args, frame, ret>>

\* the template engine evaluates the expression once: a filter is applied while
\* ret.op = "none" and leaves its outcome in ret
Ext ==
    /\ ret.op = "none"
    /\ ret' = Outcome("ext", Returned(ext(pth, ignore, recursive)))
    /\ UNCHANGED <<FILTERS, config, hooked, pth, ignore, recursive, fs, args, frame>>

Ext0 ==
    /\ ret.op = "none"
    /\ ret' = Outcome("ext0", Returned(ext0(pth, ignore, recursive)))
    /\ UNCHANGED <<FILTERS, config, hooked, pth, ignore, recursive, fs, args, frame>>

Prefix ==
    /\ ret.op = "none"
    /\ ret' = Outcome("prefix", Returned(prefix(pth, ignore, recursive)))
    /\ UNCHANGED <<FILTERS, config, hooked, pth, ignore, recursive, fs, args, frame>>

Prefix0 ==
    /\ ret.op = "none"
    /\ ret' = Outcome("prefix0", Returned(prefix0(FILTERS, pth, ignore, recursive)))
    /\ UNCHANGED <<FILTERS, config, hooked, pth, ignore, recursive, fs, args, frame>>

Filename ==
    /\ ret.op = "none"
    /\ ret' = Outcome("filename", Returned(filename(pth, ignore, recursive)))
    /\ UNCHANGED <<FILTERS, config, hooked, pth, ignore, recursive, fs, args, frame>>

Filename0 ==
    /\ ret.op = "none"
    /\ ret' = Outcome("filename0", Returned(filename0(pth, ignore, recursive)))
    /\ UNCHANGED <<FILTERS, config, hooked, pth, ignore, recursive, fs, args, frame>>

Getsize ==
    /\ ret.op = "none"
    /\ ret' = Outcome("getsize", getsize(fs, pth))
    /\ UNCHANGED <<FILTERS, config, hooked, pth, ignore, recursive, fs, args, frame>>

Getmtime ==
    /\ ret.op = "none"
    /\ ret' = Outcome("getmtime", getmtime(fs, pth))
    /\ UNCHANGED <<FILTERS, config, hooked, pth, ignore, recursive, fs, args, frame>>

Getctime ==
    /\ ret.op = "none"
    /\ ret' = Outcome("getctime", getctime(fs, pth))
    /\ UNCHANGED <<FILTERS, config, hooked, pth, ignore, recursive, fs, args, frame>>

Getatime ==
    /\ ret.op = "none"
    /\ ret' = Outcome("getatime", getatime(fs, pth))
    /\ UNCHANGED <<FILTERS, config, hooked, pth, ignore, recursive, fs, args, frame>>

Next == Ext \/ Ext0 \/ Prefix \/ Prefix0 \/ Filename \/ Filename0

NextPlugin == OnInit \/ Next

NextStat == Getsize \/ Getmtime \/ Getctime \/ Getatime

Spec == Init /\ [][Next]_vars

SpecPlugin == InitPlugin /\ [][NextPlugin]_vars

SpecStat == InitStat /\ [][NextStat]_vars

(***************************************************************************)
(* Properties of the extension splitting                                   *)
(***************************************************************************)
\* the positions of pth where an extension starts: the dots of the final segment that
\* have a character other than a dot before them in that segment
SplitDots(p) ==
    LET sep == RFind(p, "/")
    IN  {d \in (sep + 1)..Len(p) :
            p[d] = "." /\ \E j \in (sep + 1)..(d - 1) : p[j] # "."}

MaxOf(S) == CHOOSE x \in S : \A y \in S : y <= x
MinOf(S) == CHOOSE x \in S : \A y \in S : x <= y

\* the extension starting at d: up to the next extension, or to the end
ExtAt(p, d) ==
    SubSeq(p, d, MinOf({e \in SplitDots(p) : e > d} \cup {Len(p) + 1}) - 1)

\* the last extension of p, "" when it has none
LastExt(p) ==
    IF SplitDots(p) = {} THEN <<>> ELSE SubSeq(p, MaxOf(SplitDots(p)), Len(p))

\* an ignore entry matches an extension: equal once written with one leading dot
Ignored(e, ig) ==
    \E i \in 1..Len(AsList(ig)) : <<".">> \o LStripDot(AsList(ig)[i]) = e

\* _splitexit('/a/c.d.e.txt', ['.txt', 'e'], False) == ('/a/c.d', '.e')
C1_Example ==
    Splitexit(<<"/", "a", "/", "c", ".", "d", ".", "e", ".", "t", "x", "t">>,
              [kind |-> "list", val |-> <<<<".", "t", "x", "t">>, <<"e">>>>], FALSE)
        = << <<"/", "a", "/", "c", ".", "d">>, <<".", "e">> >>

\* C1: non-recursive, the result is the first split (head, last_ext) when last_ext is
\* not ignored, and exactly one further split of head when it is: at most one ignored
\* extension is dropped, whether or not the next one is ignored too.
C1_NonRecursiveSplit ==
    (~recursive /\ ret.op \in {"prefix", "ext"}) =>
        LET first == Splitext(pth)
            result == IF Ignored(first[2], ignore) THEN Splitext(first[1]) ELSE first
        IN  /\ ret.op = "prefix" => ret.val = result[1]
            /\ ret.op = "ext" => ret.val = result[2]
            /\ Len(pth) - Len(result[1]) - Len(result[2]) =
                 IF Ignored(first[2], ignore) THEN Len(first[2]) ELSE 0
            /\ C1_Example

\* C1 witness: one ignored extension was dropped and the extension returned is itself
\* in the ignore-list
C1_Witness ==
    /\ ~recursive
    /\ ret.op = "ext"
    /\ Len(ret.val) = 2
    /\ Ignored(ret.val, ignore)
    /\ Len(LastExt(pth)) = 2
    /\ Ignored(LastExt(pth), ignore)

\* ext('/a/b.txt.gz', ['.gz', 'txt'], True) == '' and
\* ext('/a/b.x.txt.gz', ['.gz', 'txt'], True) == '.x'
C2_Examples ==
    /\ ext(<<"/", "a", "/", "b", ".", "t", "x", "t", ".", "g", "z">>,
           [kind |-> "list", val |-> <<<<".", "g", "z">>, <<"t", "x", "t">>>>], TRUE)
         = <<>>
    /\ ext(<<"/", "a", "/", "b", ".", "x", ".", "t", "x", "t", ".", "g", "z">>,
           [kind |-> "list", val |-> <<<<".", "g", "z">>, <<"t", "x", "t">>>>], TRUE)
         = <<".", "x">>

\* C2: recursive, the extension returned is never in the normalized ignore-list: it is the
\* first extension from the tail that is not ignored, and "" when all are ignored or
\* there is none.
C2_RecursiveExtNotIgnored ==
    (recursive /\ ret.op = "ext") =>
        LET kept == {d \in SplitDots(pth) : ~Ignored(ExtAt(pth, d), ignore)}
        IN  /\ ~InList(ret.val, Normalize(ignore))
            /\ ~Ignored(ret.val, ignore)
            /\ ret.val = IF kept = {} THEN <<>> ELSE ExtAt(pth, MaxOf(kept))
            /\ C2_Examples

\* C2 witness: an ignored extension was stripped and the next one, not ignored, returned
C2_Witness ==
    /\ recursive
    /\ ret.op = "ext"
    /\ Len(ret.val) = 2
    /\ Len(LastExt(pth)) = 2
    /\ Ignored(LastExt(pth), ignore)
    /\ Len(AsList(ignore)) = 2

\* C3: non-recursive, prefix + ext is pth when the last extension is not ignored, and pth
\* without that one trailing extension when it is.
C3_Reconstruction ==
    (~recursive /\ ret.op \in {"prefix", "ext"}) =>
        LET whole == IF ret.op = "prefix"
                     THEN ret.val \o ext(pth, ignore, recursive)
                     ELSE prefix(pth, ignore, recursive) \o ret.val
            last == LastExt(pth)
        IN  whole = IF Ignored(last, ignore)
                    THEN SubSeq(pth, 1, Len(pth) - Len(last))
                    ELSE pth

\* C3 witness: the last extension is ignored, so prefix + ext is shorter than pth
C3_Witness ==
    /\ ~recursive
    /\ ret.op = "prefix"
    /\ Len(LastExt(pth)) = 2
    /\ Ignored(LastExt(pth), ignore)
    /\ ret.val \o ext(pth, ignore, recursive) # pth
    /\ Len(ext(pth, ignore, recursive)) = 2

RECURSIVE Dots(_)
Dots(k) == IF k = 0 THEN <<>> ELSE <<".">> \o Dots(k - 1)

\* the ignore-list with every entry written with k leading dots
Respelled(ig, k) ==
    [kind |-> "list",
     val |-> [i \in 1..Len(AsList(ig)) |-> Dots(k) \o LStripDot(AsList(ig)[i])]]

\* C4: every entry is compared with exactly one leading dot, so the result is the same
\* however many leading dots the entries are written with, a single str is the
\* one-element list, and an extension is dropped only when an entry equals it exactly.
C4_IgnoreNormalization ==
    /\ \A i \in 1..Len(Normalize(ignore)) :
            LET e == Normalize(ignore)[i]
            IN  e[1] = "." /\ (Len(e) > 1 => e[2] # ".") /\ LStripDot(e) = LStripDot(AsList(ignore)[i])
    /\ ret.op \in {"prefix", "ext"} =>
        LET at == IF ret.op = "prefix" THEN 1 ELSE 2
        IN  /\ \A k \in 0..2 : ret.val = Splitexit(pth, Respelled(ignore, k), recursive)[at]
            /\ ret.val = Splitexit(pth, [kind |-> "list", val |-> AsList(ignore)], recursive)[at]
            /\ (ret.val # Splitext(pth)[at]) =>
                 \E i \in 1..Len(AsList(ignore)) :
                    <<".">> \o LStripDot(AsList(ignore)[i]) = LastExt(pth)
            /\ (LastExt(pth) # <<>> /\ Ignored(LastExt(pth), ignore)) =>
                 Splitexit(pth, ignore, recursive) # Splitext(pth)

\* C4 witness: a single str entry written with two leading dots dropped the extension
C4_Witness ==
    /\ ret.op = "prefix"
    /\ ignore = [kind |-> "str", val |-> <<".", ".", "a">>]
    /\ LastExt(pth) = <<".", "a">>
    /\ ret.val # Splitext(pth)[1]

\* C5: ext0 is ext with its leading dots removed, and "" exactly when ext is "" or ".".
C5_Ext0IsLstrip ==
    ret.op = "ext0" =>
        /\ ret.val = LStripDot(ext(pth, ignore, recursive))
        /\ (ret.val = <<>>) <=> (ext(pth, ignore, recursive) \in {<<>>, <<".">>})

\* C5 witness: ext0 of a path whose last extension was ignored, not empty
C5_Witness ==
    /\ ret.op = "ext0"
    /\ ret.val # <<>>
    /\ Len(LastExt(pth)) = 2
    /\ Ignored(LastExt(pth), ignore)

\* prefix0('/a/b.c.d.e.txt', ['.txt', 'c'], True) == '/a/b' and
\* prefix0('/a/b.c.txt') == '/a/b', with the registry of the import
C6_Examples ==
    /\ prefix0(Registry,
               <<"/", "a", "/", "b", ".", "c", ".", "d", ".", "e", ".", "t", "x", "t">>,
               [kind |-> "list", val |-> <<<<".", "t", "x", "t">>, <<"c">>>>], TRUE)
         = <<"/", "a", "/", "b">>
    /\ prefix0(Registry, <<"/", "a", "/", "b", ".", "c", ".", "t", "x", "t">>,
               [kind |-> "list", val |-> <<>>], FALSE)
         = <<"/", "a", "/", "b">>

Slots == {"filters", "globals"}

HasSlot(cfg, slot) ==
    "template_opts" \in DOMAIN cfg /\ slot \in DOMAIN cfg["template_opts"]

\* slot has name bound to func
Bound(cfg, slot, name, func) ==
    /\ HasSlot(cfg, slot)
    /\ name \in DOMAIN cfg["template_opts"][slot]
    /\ cfg["template_opts"][slot][name] = func

\* C7: a name the host has bound in filters or globals keeps the host's value through
\* on_init, and no key of the host is removed.
C7_UserOverride ==
    [][\A slot \in Slots :
          HasSlot(config, slot) =>
            /\ HasSlot(config', slot)
            /\ \A n \in DOMAIN config["template_opts"][slot] :
                  /\ n \in DOMAIN config'["template_opts"][slot]
                  /\ config'["template_opts"][slot][n] = config["template_opts"][slot][n]]_vars

\* C7 witness: after on_init the host's own "ext" beside the defaults
C7_Witness ==
    /\ hooked
    /\ Bound(config, "filters", "ext", "user_fn")
    /\ Bound(config, "filters", "prefix", "prefix")
    /\ Bound(config, "globals", "stem", "user_fn")

\* C8: after on_init template_opts has a filters and a globals slot, each holding every
\* name of the registry, and a name the host had not bound is bound to the registry's
\* function.
C8_AllRegistered ==
    [][hooked' =>
         \A slot \in Slots :
            /\ HasSlot(config', slot)
            /\ {"ext", "suffix", "fn0", "stem", "joinpath", "json", "toml_dumps", "slugify"}
                 \subseteq DOMAIN config'["template_opts"][slot]
            /\ \A n \in DOMAIN FILTERS :
                  /\ n \in DOMAIN config'["template_opts"][slot]
                  /\ ~(HasSlot(config, slot) /\ n \in DOMAIN config["template_opts"][slot])
                       => config'["template_opts"][slot][n] = FILTERS[n]]_vars

\* C8 witness: after on_init of a host that had no globals slot
C8_Witness ==
    /\ hooked
    /\ config["template_opts"]["globals"] = FILTERS
    /\ Bound(config, "filters", "fn", "filename")
    /\ Bound(config, "filters", "mine", "user_fn")

\* C9: FILTERS stays the catalog registered at import through on_init and filter calls.
C9_RegistryReadOnly ==
    /\ DOMAIN FILTERS = DOMAIN Registry
    /\ \A n \in DOMAIN Registry : FILTERS[n] = Registry[n]

\* C9 witness: on_init of a host with own filters and a filter call have both happened
C9_Witness ==
    /\ hooked
    /\ ret.op = "prefix0"
    /\ Bound(config, "filters", "mine", "user_fn")
    /\ Bound(config, "filters", "filename0", "filename0")

(***************************************************************************)
(* Properties of the stat filters                                          *)
(***************************************************************************)
StatFieldOf ==
    [getsize |-> "st_size", getmtime |-> "st_mtime", getctime |-> "st_ctime",
     getatime |-> "st_atime"]

\* C10: getsize, getmtime, getctime and getatime raise nothing; they return the stat
\* field when stat succeeds and -1 when it fails.
C10_SentinelOnFailure ==
    ret.op \in DOMAIN StatFieldOf =>
        /\ ret.raised = "none"
        /\ ret.val = IF fs[pth].exc = "none" THEN fs[pth].st[StatFieldOf[ret.op]] ELSE -1

\* C10 witness: getmtime of a path whose stat fails with a permission error
C10_Witness ==
    /\ ret.op = "getmtime"
    /\ fs[pth].exc = "PermissionError"
    /\ ret.val = -1

(***************************************************************************)
(* config: a mapping, a TOML or JSON text, or a file to load               *)
(***************************************************************************)
\* the documents {"a": 1}, {"a": None} and {"a": "null"}, values as Python writes them
DocA1 == ("a" :> "1")
DocANone == ("a" :> "None")
DocANull == ("a" :> "'null'")

\* the str values given as x: three texts and two file names
ConfigTexts == {"a = 1", "{\"a\": 1}", "a = \"null\""}
ConfigFiles == {"conf.toml", "conf.json"}
ConfigStrs == ConfigTexts \cup ConfigFiles

\* the loader argument; "None" is the default
Loaders == {"None", "toml", "json", "ini"}

\* the TOML parser on these strings (Config.load(text, loader="tomls"))
TomlParse(text) ==
    CASE text = "a = 1" -> Returned(DocA1)
      [] text = "a = \"null\"" -> Returned(DocANull)
      [] OTHER -> Raised("TOMLDecodeError")

\* simpleconf.caster.null_caster over a document: the string "null" becomes None
NullCast(doc) == [k \in DOMAIN doc |-> IF doc[k] = "'null'" THEN "None" ELSE doc[k]]

\* toml_loads: cast(Config.load(tomlstr, loader="tomls"), [null_caster])
toml_loads(text) ==
    LET parsed == TomlParse(text)
    IN  IF parsed.raised # "none" THEN parsed ELSE Returned(NullCast(parsed.val))

\* json_loads: json.loads(jsonstr)
json_loads(text) ==
    IF text = "{\"a\": 1}" THEN Returned(DocA1) ELSE Raised("JSONDecodeError")

\* calling the function object a registry entry holds
CallLoads(func, text) ==
    CASE func = "toml_loads" -> toml_loads(text)
      [] func = "json_loads" -> json_loads(text)

\* PanPath(p).is_file(): p names a regular file
IsFile(files, p) ==
    p \in DOMAIN files /\ files[p].exc = "none" /\ files[p].kind = "file"

\* the loader simpleconf picks for a file name when none is given: its extension
LoaderOfName(name) ==
    CASE name = "conf.toml" -> "toml"
      [] name = "conf.json" -> "json"

\* a file's text read by the loader of a format; the ini parser finds no section in
\* either text
ParseAs(format, text) ==
    CASE format = "toml" -> TomlParse(text)
      [] format = "json" -> json_loads(text)
      [] OTHER -> Raised("MissingSectionHeaderError")

\* Config.load_one(x, loader=loader): a mapping through the dict loader, a file through
\* the loader given or the loader of its extension
LoadOne(files, x, loader) ==
    IF loader = "dict" THEN Returned(x.doc)
    ELSE IF ~IsFile(files, x.val) THEN Raised("FileNotFoundError")
    ELSE ParseAs(IF loader = "None" THEN LoaderOfName(x.val) ELSE loader, files[x.val].text)

\* config with a text and no loader read as TOML
ConfigFilterTomlByDefault(files, reg, x, loader) ==
    IF x.type \notin {"Path", "str"} THEN LoadOne(files, x, "dict")
    ELSE IF x.type = "str" /\ ~IsFile(files, x.val)
    THEN IF loader = "toml" \/ loader = "None" THEN CallLoads(reg["toml_loads"], x.val)
         ELSE IF loader = "json" THEN CallLoads(reg["json_loads"], x.val)
         ELSE Raised("ValueError")
    ELSE LoadOne(files, x, loader)

\* config(x, loader); Diot(...) keeps the content of the mapping it wraps
ConfigFilter(files, reg, x, loader) ==
    IF x.type \notin {"Path", "str"} THEN LoadOne(files, x, "dict")
    ELSE IF x.type = "str" /\ ~IsFile(files, x.val)
    THEN IF loader = "toml" THEN CallLoads(reg["toml_loads"], x.val)
         ELSE IF loader = "json" THEN CallLoads(reg["json_loads"], x.val)
         ELSE Raised("ValueError")
    ELSE LoadOne(files, x, loader)

\* the values given as x: a mapping (doc), a str or a Path (val)
ConfigInputs ==
    {[type |-> "dict", val |-> "", doc |-> d] : d \in {DocA1, DocANull}}
    \cup {[type |-> "str", val |-> t, doc |-> EmptyDict] : t \in ConfigStrs}
    \cup {[type |-> "Path", val |-> n, doc |-> EmptyDict] : n \in ConfigFiles}

\* what a file name may be on disk: absent, a directory, or a file holding a text
ConfigEntries ==
    {[exc |-> "FileNotFoundError", st |-> NoStat, kind |-> "none", text |-> ""],
     [exc |-> "none", st |-> NoStat, kind |-> "dir", text |-> ""]}
    \cup {[exc |-> "none", st |-> NoStat, kind |-> "file", text |-> t] :
            t \in {"a = 1", "{\"a\": 1}"}}

\* a template applying config to any x and loader, over any state of the two files
InitConfig ==
    /\ FILTERS = Registry
    /\ config = NoConfig
    /\ hooked = FALSE
    /\ fs \in [ConfigFiles -> ConfigEntries]
    /\ pth = <<>>
    /\ ignore = NoIgnore
    /\ recursive = FALSE
    /\ args \in [x : ConfigInputs, loader : Loaders]
    /\ frame = NoFrame
    /\ ret = NoRet

ConfigCall ==
    /\ ret.op = "none"
    /\ ret' = Outcome("config", ConfigFilter(fs, FILTERS, args.x, args.loader))
    /\ UNCHANGED <<FILTERS, config, hooked, pth, ignore, recursive, fs, args, frame>>

\* json_load(pth): config(pth, "json")
JsonLoad ==
    /\ ret.op = "none"
    /\ ret' = Outcome("json_load", ConfigFilter(fs, FILTERS, args.x, "json"))
    /\ UNCHANGED <<FILTERS, config, hooked, pth, ignore, recursive, fs, args, frame>>

\* toml_load(pth): config(pth, "toml")
TomlLoad ==
    /\ ret.op = "none"
    /\ ret' = Outcome("toml_load", ConfigFilter(fs, FILTERS, args.x, "toml"))
    /\ UNCHANGED <<FILTERS, config, hooked, pth, ignore, recursive, fs, args, frame>>

NextConfig == ConfigCall \/ JsonLoad \/ TomlLoad

SpecConfig == InitConfig /\ [][NextConfig]_vars

WholeCatalog == PathCatalog \o FileCatalog \o DataCatalog

NoneAlias == [kind |-> "none"]

\* the aliases a user module may write: "", one that is already bound, a new one
UserAliases == {"", "suffix", "myfilter2"}

\* the decorator argument: bare, add_filter(), a str, a list of str
AliasArgs ==
    {Bare, NoneAlias}
    \cup {OneAlias(a) : a \in UserAliases}
    \cup {ListAlias(l) : l \in SeqsUpTo({"", "myfilter2"}, MaxAliases)}

\* the functions a user module decorates, by __name__
UserFunctions == {"myfilter", "slug"}

\* args: the decorators of filters.py already run (imported), the user functions
\* decorated since (added), and the argument and function of the last decoration
InitImport ==
    /\ FILTERS = EmptyRegistry
    /\ config = NoConfig
    /\ hooked = FALSE
    /\ fs = NoFs
    /\ pth = <<>>
    /\ ignore = NoIgnore
    /\ recursive = FALSE
    /\ args = [imported |-> 0, added |-> 0, aliases |-> NoneAlias, func |-> ""]
    /\ frame = NoFrame
    /\ ret = NoRet

\* the next decorated definition of filters.py
ImportStep ==
    /\ args.imported < Len(WholeCatalog)
    /\ LET next == WholeCatalog[args.imported + 1]
       IN  /\ FILTERS' = AddFilter(FILTERS, next[1], next[2])
           /\ args' = [args EXCEPT !.imported = @ + 1, !.aliases = next[1], !.func = next[2]]
           /\ ret' = Outcome("add_filter", Returned(next[2]))
    /\ UNCHANGED <<config, hooked, pth, ignore, recursive, fs, frame>>

\* a decorated definition of a user module, once filters.py is imported
UserDecorate ==
    /\ args.imported = Len(WholeCatalog)
    /\ args.added < MaxDecorated
    /\ \E arg \in AliasArgs, func \in UserFunctions :
        /\ FILTERS' = AddFilter(FILTERS, arg, func)
        /\ args' = [args EXCEPT !.added = @ + 1, !.aliases = arg, !.func = func]
        /\ ret' = Outcome("add_filter", Returned(func))
    /\ UNCHANGED <<config, hooked, pth, ignore, recursive, fs, frame>>

NextImport == ImportStep \/ UserDecorate

SpecImport == InitImport /\ [][NextImport]_vars

\* the aliases given to a decoration: none for the bare and the empty form, the str, or
\* the entries of the list
GivenAliases(arg) ==
    IF arg.kind = "callable" \/ arg.kind = "none" THEN {}
    ELSE IF arg.kind = "str" THEN {arg.val}
    ELSE {arg.val[i] : i \in 1..Len(arg.val)}

SameFunction(reg, alias, name) ==
    alias \in DOMAIN reg /\ name \in DOMAIN reg /\ reg[alias] = reg[name]

TextChars == {" ", "\n", "x"}

Whitespace == {" ", "\n"}

Texts == SeqsUpTo(TextChars, MaxText)

\* s.lstrip()
RECURSIVE LStrip(_)
LStrip(s) == IF s # <<>> /\ Head(s) \in Whitespace THEN LStrip(Tail(s)) ELSE s

\* s.rstrip()
RECURSIVE RStrip(_)
RStrip(s) ==
    IF s # <<>> /\ s[Len(s)] \in Whitespace THEN RStrip(SubSeq(s, 1, Len(s) - 1)) ELSE s

\* s.strip()
Strip(s) == RStrip(LStrip(s))

\* what a path may be on disk: absent, a directory, or a regular file holding a text,
\* whose st_size is the length of the text
EmptyEntries ==
    {[exc |-> "FileNotFoundError", st |-> NoStat, kind |-> "none", text |-> <<>>],
     [exc |-> "none", st |-> NoStat, kind |-> "dir", text |-> <<>>]}
    \cup {[exc |-> "none", st |-> [NoStat EXCEPT !.st_size = Len(t)], kind |-> "file",
           text |-> t] : t \in Texts}

\* isempty comparing the trimmed text whatever ignore_ws is
isemptyAlwaysTrimmed(files, p, ignore_ws, nonfile_as_empty) ==
    IF ~IsFile(files, p) THEN nonfile_as_empty
    ELSE Strip(files[p].text) = <<>>

isempty(files, p, ignore_ws, nonfile_as_empty) ==
    IF ~IsFile(files, p) THEN nonfile_as_empty
    ELSE IF ~ignore_ws THEN getsize(files, p).val = 0
    ELSE Strip(files[p].text) = <<>>

\* a template applying isempty to a path of any status, with any flags
InitEmpty ==
    /\ FILTERS = Registry
    /\ config = NoConfig
    /\ hooked = FALSE
    /\ fs \in [StatPaths -> EmptyEntries]
    /\ pth \in StatPaths
    /\ ignore = NoIgnore
    /\ recursive = FALSE
    /\ args \in [ignore_ws : BOOLEAN, nonfile_as_empty : BOOLEAN]
    /\ frame = NoFrame
    /\ ret = NoRet

Isempty ==
    /\ ret.op = "none"
    /\ ret' = Outcome("isempty",
                      Returned(isempty(fs, pth, args.ignore_ws, args.nonfile_as_empty)))
    /\ UNCHANGED <<FILTERS, config, hooked, pth, ignore, recursive, fs, args, frame>>

NextEmpty == Isempty

SpecEmpty == InitEmpty /\ [][NextEmpty]_vars

\* C13: for a path that is not an existing regular file isempty returns nonfile_as_empty
\* whatever ignore_ws is; for a file with ignore_ws it returns true exactly when every
\* character of the content is whitespace; for a file without ignore_ws it returns true
\* exactly when the size is 0.  A file holding one newline is empty with ignore_ws and
\* not without.
C13_Isempty ==
    ret.op = "isempty" =>
        LET e == fs[pth]
        IN  /\ e.kind # "file" => ret.val = args.nonfile_as_empty
            /\ (e.kind = "file" /\ args.ignore_ws) =>
                 (ret.val <=> \A i \in 1..Len(e.text) : e.text[i] \in Whitespace)
            /\ (e.kind = "file" /\ ~args.ignore_ws) => (ret.val <=> e.st.st_size = 0)
            /\ (e.kind = "file" /\ e.text = <<"\n">>) => (ret.val <=> args.ignore_ws)

\* C13 witness: a file holding one newline was found not empty without ignore_ws
C13_Witness ==
    /\ ret.op = "isempty"
    /\ fs[pth].kind = "file"
    /\ fs[pth].text = <<"\n">>
    /\ ~args.ignore_ws
    /\ ret.val = FALSE

(***************************************************************************)
(* _splitexit step by step: the first split, then either the single        *)
(* further split or the loop                                               *)
(***************************************************************************)
\* ignore entries for the loop: "", "." and "g"
LoopEntries == {<<>>, <<".">>, <<"g">>}

LoopIgnores ==
    {[kind |-> "str", val |-> e] : e \in LoopEntries}
    \cup {[kind |-> "list", val |-> l] : l \in SeqsUpTo(LoopEntries, MaxIgnore)}

InitLoop ==
    /\ FILTERS = Registry
    /\ config = NoConfig
    /\ hooked = FALSE
    /\ fs = NoFs
    /\ pth \in Paths
    /\ ignore \in LoopIgnores
    /\ recursive \in BOOLEAN
    /\ args = NoArgs
    /\ frame = NoFrame
    /\ ret = NoRet

\* lines 89-93: the ignore-list normalized, the first splitext
SplitexitEnter ==
    /\ frame.pc = "none"
    /\ frame' = [pc |-> "split", pth |-> Splitext(pth)[1], last |-> Splitext(pth)[2],
                 ignore |-> Normalize(ignore), iterations |-> 0]
    /\ UNCHANGED <<FILTERS, config, hooked, pth, ignore, recursive, fs, args, ret>>

\* lines 94-95: return (pth, last) if last not in ignore else path.splitext(pth)
SplitexitOnce ==
    /\ frame.pc = "split"
    /\ ~recursive
    /\ LET result == IF ~InList(frame.last, frame.ignore)
                     THEN <<frame.pth, frame.last>>
                     ELSE Splitext(frame.pth)
       IN  /\ frame' = [frame EXCEPT !.pc = "done", !.pth = result[1], !.last = result[2]]
           /\ ret' = Outcome("_splitexit", Returned(result))
    /\ UNCHANGED <<FILTERS, config, hooked, pth, ignore, recursive, fs, args>>

\* lines 97-98: one iteration of the loop
SplitexitLoop ==
    /\ frame.pc = "split"
    /\ recursive
    /\ InList(frame.last, frame.ignore)
    /\ frame' = [frame EXCEPT !.pth = Splitext(frame.pth)[1],
                              !.last = Splitext(frame.pth)[2],
                              !.iterations = @ + 1]
    /\ UNCHANGED <<FILTERS, config, hooked, pth, ignore, recursive, fs, args, ret>>

\* line 99: the loop left
SplitexitReturn ==
    /\ frame.pc = "split"
    /\ recursive
    /\ ~InList(frame.last, frame.ignore)
    /\ frame' = [frame EXCEPT !.pc = "done"]
    /\ ret' = Outcome("_splitexit", Returned(<<frame.pth, frame.last>>))
    /\ UNCHANGED <<FILTERS, config, hooked, pth, ignore, recursive, fs, args>>

NextLoop == SplitexitEnter \/ SplitexitOnce \/ SplitexitLoop \/ SplitexitReturn

SpecLoop == InitLoop /\ [][NextLoop]_vars

\* the interpreter runs the next statement of a call in progress
SpecLoopFair == SpecLoop /\ WF_vars(NextLoop)

\* the dots of the final segment of p
FinalDots(p) == {i \in (RFind(p, "/") + 1)..Len(p) : p[i] = "."}

\* what holds of a recursive call in progress or returned
LoopBounded ==
    (recursive /\ frame.pc # "none") =>
        /\ ~InList(<<>>, frame.ignore)
        /\ \A i \in 1..Len(AsList(ignore)) :
             AsList(ignore)[i] \in {<<>>, <<".">>} => frame.ignore[i] = <<".">>
        /\ Len(frame.pth) + Len(frame.last) + frame.iterations <= Len(pth)
        /\ frame.iterations <= Cardinality(FinalDots(pth))
        /\ frame.pc = "split" => (ENABLED SplitexitLoop \/ ENABLED SplitexitReturn)
        /\ frame.pc = "done" =>
             /\ ret.op = "_splitexit"
             /\ ret.val = Splitexit(pth, ignore, TRUE)
             /\ ~InList(ret.val[2], frame.ignore)

\* C14: with recursive set the loop ends: the normalized ignore-list never holds the
\* empty extension (the entries "" and "." are both "."), every iteration has removed a
\* non-empty extension from the kept string, the iterations never exceed the dots of the
\* final segment of the path, and every call returns, with what _splitexit returns.
C14_LoopTerminates == []LoopBounded /\ <>(frame.pc = "done")

\* C14 witness: the loop ran once for every dot of a path with two dots or more, under
\* the ignore entry "", and returned
C14_Witness ==
    /\ recursive
    /\ frame.pc = "done"
    /\ ignore = [kind |-> "str", val |-> <<>>]
    /\ frame.iterations >= 2
    /\ frame.iterations = Cardinality(FinalDots(pth))

\* _splitexit('/a/.bashrc', 'bashrc', r) == ('/a/.bashrc', '') and
\* _splitexit('/a.gz/b', '.gz', r) == ('/a.gz/b', ''), r either way
C15_Examples ==
    \A r \in BOOLEAN :
        /\ Splitexit(<<"/", "a", "/", ".", "b", "a", "s", "h", "r", "c">>,
                     [kind |-> "str", val |-> <<"b", "a", "s", "h", "r", "c">>], r)
             = << <<"/", "a", "/", ".", "b", "a", "s", "h", "r", "c">>, <<>> >>
        /\ Splitexit(<<"/", "a", ".", "g", "z", "/", "b">>,
                     [kind |-> "str", val |-> <<".", "g", "z">>], r)
             = << <<"/", "a", ".", "g", "z", "/", "b">>, <<>> >>

\* C15: whatever the recursive flag, the kept component is a leading substring of the
\* path that holds everything up to and including the last separator; where it ends
\* short of the path, the path has a dot there, inside the final segment and not at its
\* first position; where it is the whole path, the extension is empty.
C15_FinalSegmentOnly ==
    frame.pc # "none" =>
        LET kept == frame.pth
            sep == RFind(pth, "/")
        IN  /\ Len(kept) <= Len(pth)
            /\ kept = SubSeq(pth, 1, Len(kept))
            /\ Len(kept) >= sep
            /\ Len(kept) < Len(pth) => (pth[Len(kept) + 1] = "." /\ Len(kept) + 1 > sep + 1)
            /\ kept = pth => frame.last = <<>>
            /\ frame.pc = "done" =>
                 (ret.op = "_splitexit" /\ ret.val = <<kept, frame.last>>
                  /\ ret.val = Splitexit(pth, ignore, recursive))
            /\ C15_Examples

\* C15 witness: a path with a dot in a directory segment and a dot opening the final
\* segment came back whole, the extension after either dot being in the ignore-list
C15_Witness ==
    /\ ret.op = "_splitexit"
    /\ pth = <<".", "g", "/", ".", "g">>
    /\ InList(<<".", "g">>, frame.ignore)
    /\ ret.val = <<pth, <<>>>>

====
